---- MODULE Spec2Model ----
(***************************************************************************)
(* Model of the WebGPU local-workgroup-shared-memory matmul programs:      *)
(*   MatMulLWSProgram   (tfjs-backend-webgpu/src/matmul_lws_webgpu.ts)     *)
(*   Conv2DMMLWSProgram (the conv2d variant that reuses the kernel source) *)
(* A request is a shape (batch, M, N, K) plus epilogue flags.  The         *)
(* constructor derives the tile configuration, the dispatch and the        *)
(* shaderKey; getUserCode hands the fields to the text generators; the     *)
(* emitted kernel is modelled by its index arithmetic and, for one         *)
(* workgroup, by the interleaving of its threads around workgroupBarrier.  *)
(***************************************************************************)
EXTENDS Integers, Sequences, FiniteSets, TLC

VARIABLES
  variant,   \* "matmul" | "conv2d": which program class the request builds
  req,       \* the constructor arguments
  stage,     \* "requested" | "constructed" | "threw" | "generated"
  prog,      \* the fields of the constructed program object
  userCode,  \* the arguments getUserCode passed to the text generators
  prev,      \* the previous generated request: [variant, shaderKey, userCode]
  pc,        \* kernel: per-thread position in the emitted main()
  iter,      \* kernel: per-thread loop variable t
  arrived    \* kernel: threads waiting at the current workgroupBarrier

vars == <<variant, req, stage, prog, userCode, prev, pc, iter, arrived>>

(***************************************************************************)
(* Bounds of the model.                                                    *)
(***************************************************************************)
MaxDim == 33          \* M and N range over 1..MaxDim (covers the cap at 32)
MaxK == 35            \* K ranges over 1..MaxK (all residues past the cap)
LargeKSpan == 6       \* and over 1001..1000+LargeKSpan (the K > 1000 branch)
MaxBatch == 2         \* batch ranges over 1..MaxBatch
MaxKeyDim == 2        \* shapes of the two-request specification
NumThreads == 2       \* threads of the workgroup in the interleaving model

(***************************************************************************)
(* Program constants.                                                      *)
(***************************************************************************)
WorkgroupSize == 64   \* workgroupSize = [64, 1, 1]
TileCap == 32         \* N < 32 ? N : 32
LargeK == 1000        \* K > 1000
TileKLarge == 32      \* K > 1000 ? 32 : 16
TileKSmall == 16
\* Math.ceil(a / b) for positive integers
Ceil(a, b) == (a + b - 1) \div b

BoolStr(b) == IF b THEN "true" ELSE "false"

\* backend_util.Activation values used in requests; null is the default
NullActivation == "null"
Activations == {NullActivation, "relu", "prelu"}

(***************************************************************************)
(* getMaxComponents, one private copy per file.                            *)
(***************************************************************************)
\* faulty variant: the tests in the wrong order, so 4 is never chosen
getMaxComponents_Swapped(size) ==
  IF size % 2 = 0 THEN 2
  ELSE IF size % 4 = 0 THEN 4
  ELSE 1

getMaxComponentsMatMul(size) ==
  IF size % 4 = 0 THEN 4
  ELSE IF size % 2 = 0 THEN 2
  ELSE 1

getMaxComponentsConv(size) ==
  IF size % 4 = 0 THEN 4
  ELSE IF size % 3 = 0 THEN 3
  ELSE IF size % 2 = 0 THEN 2
  ELSE 1

getMaxComponents(v, size) ==
  IF v = "matmul" THEN getMaxComponentsMatMul(size) ELSE getMaxComponentsConv(size)

(***************************************************************************)
(* The tile configuration derived by the constructors.                     *)
(***************************************************************************)
Components(N) == IF N % 4 = 0 THEN 4 ELSE 1

TileOf(dim) == IF dim < TileCap THEN dim ELSE TileCap

\* faulty variant: the large tile depth whatever K is
TileKMatMul_AlwaysLarge(K) == IF K < TileCap THEN K ELSE TileKLarge

TileKMatMul(K) ==
  IF K < TileCap THEN K ELSE (IF K > LargeK THEN TileKLarge ELSE TileKSmall)

\* faulty variant: the tile depth not rounded up to a multiple of aComponents
TileKConv_NoRound(K, aComponents) ==
  IF K < TileCap THEN K ELSE (IF K > LargeK THEN TileKLarge ELSE TileKSmall)

TileKConv(K, aComponents) ==
  IF K < TileCap THEN K
  ELSE (IF K > LargeK THEN Ceil(TileKLarge, aComponents) * aComponents
                      ELSE Ceil(TileKSmall, aComponents) * aComponents)

TileK(v, K, aComponents) ==
  IF v = "matmul" THEN TileKMatMul(K) ELSE TileKConv(K, aComponents)

\* faulty variant: no special case for tiles of fewer than 4 rows
OutputNumber_NoSmall(v, tileM) == getMaxComponents(v, tileM)

OutputNumber(v, tileM) == IF tileM < 4 THEN tileM ELSE getMaxComponents(v, tileM)

TileConfig(v, M, N, K) ==
  LET a  == getMaxComponents(v, K)
      tm == TileOf(M)
  IN [components   |-> Components(N),
      aComponents  |-> a,
      tileN        |-> TileOf(N),
      tileM        |-> tm,
      tileK        |-> TileK(v, K, a),
      outputNumber |-> OutputNumber(v, tm)]

\* the condition of the defensive `throw new Error(...)`
Indivisible(c) ==
  \/ c.tileN % c.components # 0
  \/ c.tileM % c.outputNumber # 0
  \/ c.tileK % c.aComponents # 0

\* faulty variant: the workgroups of one batch only
NumWorkgroups_NoBatch(batch, M, N, c) == Ceil(M, c.tileM) * Ceil(N, c.tileN)

NumWorkgroups(batch, M, N, c) == batch * Ceil(M, c.tileM) * Ceil(N, c.tileN)

(***************************************************************************)
(* shaderKey: the template strings of the two constructors.                *)
(***************************************************************************)
MatMulShaderKey(activation, transposeA, transposeB, fitAOuter, fitBOuter, fitInner, c) ==
  "matMulLWS_" \o activation \o "_" \o BoolStr(transposeA) \o "_" \o
  BoolStr(transposeB) \o "_" \o BoolStr(fitAOuter) \o "_" \o BoolStr(fitBOuter) \o
  "_" \o BoolStr(fitInner) \o "_" \o ToString(c.tileK) \o "_" \o
  ToString(c.tileM) \o "_" \o ToString(c.tileN) \o "_" \o ToString(c.components) \o
  "_" \o ToString(c.aComponents) \o "_" \o ToString(c.outputNumber)

Conv2DShaderKey(activation, fitAOuter, fitBOuter, fitInner, c) ==
  "conv2DMMLWS_" \o activation \o "}_" \o BoolStr(fitAOuter) \o "_" \o
  BoolStr(fitBOuter) \o "_" \o BoolStr(fitInner) \o "_" \o ToString(c.tileK) \o
  "_" \o ToString(c.tileM) \o "_" \o ToString(c.tileN) \o "_" \o
  ToString(c.components) \o "_" \o ToString(c.aComponents) \o "_" \o
  ToString(c.outputNumber)

(***************************************************************************)
(* The constructors.  r is the argument record: outShape (the matmul's     *)
(* outputShape [batch, M, N], or the convolution's convInfo.outShape),     *)
(* M, N, K, transposeA, transposeB, isChannelsLast, hasBias (bias != null, *)
(* or the addBias argument), activation, hasPreluWeights                   *)
(* (preluActivationWeights != null, or the hasPreluActivationWeights       *)
(* argument).  Both constructors read batch from outShape[0]; the matmul   *)
(* one also reads M and N from it.                                         *)
(***************************************************************************)
NoProgram == [threw |-> FALSE, built |-> FALSE]
Thrown == [threw |-> TRUE, built |-> FALSE]

VariableNames(first, addBias, hasPrelu) ==
  first \o (IF addBias THEN <<"bias">> ELSE <<>>)
        \o (IF hasPrelu THEN <<"preluActivationWeights">> ELSE <<>>)

VariableComponents(aWidth, c, addBias, hasPrelu) ==
  <<aWidth, c.components>> \o (IF addBias THEN <<c.components>> ELSE <<>>)
                           \o (IF hasPrelu THEN <<c.components>> ELSE <<>>)

MatMulLWSProgram(r) ==
  LET batch == r.outShape[1]
      M == r.outShape[2]
      N == r.outShape[3]
      c == TileConfig("matmul", M, N, r.K)
      fitAOuter == M % c.tileM = 0
      fitBOuter == N % c.tileN = 0
      fitInner  == r.K % c.tileK = 0
  IN IF Indivisible(c) THEN Thrown
     ELSE [threw |-> FALSE, built |-> TRUE,
           outputShape |-> r.outShape,
           components |-> c.components, aComponents |-> c.aComponents,
           tileN |-> c.tileN, tileM |-> c.tileM, tileK |-> c.tileK,
           outputNumber |-> c.outputNumber,
           dispatch |-> <<NumWorkgroups(batch, M, N, c), 1, 1>>,
           outputComponent |-> c.components,
           variableNames |-> VariableNames(<<"A", "B">>, r.hasBias, r.hasPreluWeights),
           variableComponents |->
             VariableComponents(c.aComponents, c, r.hasBias, r.hasPreluWeights),
           transposeA |-> r.transposeA, transposeB |-> r.transposeB,
           isChannelsLast |-> FALSE,
           addBias |-> r.hasBias, activation |-> r.activation,
           hasPreluActivationWeights |-> r.hasPreluWeights,
           fitAOuter |-> fitAOuter, fitBOuter |-> fitBOuter, fitInner |-> fitInner,
           shaderKey |-> MatMulShaderKey(r.activation, r.transposeA, r.transposeB,
                                         fitAOuter, fitBOuter, fitInner, c)]

Conv2DMMLWSProgram(r) ==
  LET batch == r.outShape[1]
      c == TileConfig("conv2d", r.M, r.N, r.K)
      fitAOuter == r.M % c.tileM = 0
      fitBOuter == r.N % c.tileN = 0
      fitInner  == r.K % c.tileK = 0
  IN IF Indivisible(c) THEN Thrown
     ELSE [threw |-> FALSE, built |-> TRUE,
           outputShape |-> r.outShape,
           components |-> c.components, aComponents |-> c.aComponents,
           tileN |-> c.tileN, tileM |-> c.tileM, tileK |-> c.tileK,
           outputNumber |-> c.outputNumber,
           dispatch |-> <<NumWorkgroups(batch, r.M, r.N, c), 1, 1>>,
           outputComponent |-> c.components,
           variableNames |-> VariableNames(<<"x", "W">>, r.hasBias, r.hasPreluWeights),
           variableComponents |->
             VariableComponents(IF c.aComponents = 3 THEN 1 ELSE c.aComponents,
                                c, r.hasBias, r.hasPreluWeights),
           transposeA |-> FALSE, transposeB |-> FALSE,
           isChannelsLast |-> r.isChannelsLast,
           addBias |-> r.hasBias, activation |-> r.activation,
           hasPreluActivationWeights |-> r.hasPreluWeights,
           fitAOuter |-> fitAOuter, fitBOuter |-> fitBOuter, fitInner |-> fitInner,
           shaderKey |-> Conv2DShaderKey(r.activation, fitAOuter, fitBOuter,
                                         fitInner, c)]

(***************************************************************************)
(* getUserCode: the arguments handed to the three text generators.  The    *)
(* generators are deterministic functions of their arguments, so the text  *)
(* is represented by the argument tuples.                                  *)
(***************************************************************************)
NoCode == [generated |-> FALSE]

LWSSourceArgs(p, isConv) ==
  <<WorkgroupSize, p.outputNumber, p.components, p.aComponents,
    p.tileM, p.tileN, p.tileK, isConv>>

MatMulUserCode(p) ==
  [generated |-> TRUE,
   activationFnSnippet |->
     <<p.activation, p.hasPreluActivationWeights, p.components = 4>>,
   matMulReadWriteFnSource |->
     <<p.addBias, p.activation, p.transposeA, p.transposeB, p.fitAOuter,
       p.fitBOuter, p.fitInner, p.components, p.aComponents>>,
   makeMatMulLWSSource |-> LWSSourceArgs(p, FALSE)]

Conv2DUserCode(p) ==
  [generated |-> TRUE,
   conv2dCommonSnippet |->
     <<p.isChannelsLast, p.fitAOuter, p.fitBOuter, p.fitInner, p.addBias,
       p.activation, p.hasPreluActivationWeights, p.aComponents, p.components,
       p.components>>,
   makeMatMulLWSSource |-> LWSSourceArgs(p, TRUE)]

(***************************************************************************)
(* The emitted kernel (makeMatMulLWSSource): index arithmetic.  p is the   *)
(* program whose fields were passed to the generator; WGSL u32 and i32     *)
(* division truncates; the generator's `/` on tile sizes is exact when     *)
(* the divisibility check passed.  Every value stays far below 2^31 for    *)
(* the shapes of the model, so u32 and i32 arithmetic never wraps here.    *)
(***************************************************************************)
Stride0(p, dimBOuter) == (dimBOuter - 1) \div p.tileN + 1
Stride1(p, dimAOuter) == (dimAOuter - 1) \div p.tileM + 1

TileColStart(p, dimBOuter, id) == (id % Stride0(p, dimBOuter)) * p.tileN

Index1(p, dimBOuter, id) == id \div Stride0(p, dimBOuter)

TileRowStart(p, dimAOuter, dimBOuter, id) ==
  (Index1(p, dimBOuter, id) % Stride1(p, dimAOuter)) * p.tileM

BatchOf(p, dimAOuter, dimBOuter, id) ==
  Index1(p, dimBOuter, id) \div Stride1(p, dimAOuter)

\* what one workgroup works on: <<batch, tileRowStart, tileColStart>>
DecodeWorkgroup(p, dimAOuter, dimBOuter, id) ==
  <<BatchOf(p, dimAOuter, dimBOuter, id),
    TileRowStart(p, dimAOuter, dimBOuter, id),
    TileColStart(p, dimBOuter, id)>>

NumTiles(p, dimInner) == (dimInner - 1) \div p.tileK + 1

\* for (var tIndex = localIndex; tIndex < limit; tIndex += workgroupSize)
ThreadItems(localIndex, limit) ==
  IF localIndex >= limit THEN {}
  ELSE {localIndex + n * WorkgroupSize :
          n \in 0..((limit - 1 - localIndex) \div WorkgroupSize)}

\* declared shapes of the workgroup arrays: <<rows, columns>>
AsubShape(p) == <<p.tileM, p.tileK \div p.aComponents>>
BsubShape(p) == <<p.tileK, p.tileN \div p.components>>

\* load of A: loop limit, then inputRow and inputCol of one tIndex
\* faulty variant: the loop limit in scalars instead of vectors
ALoadLimit_NoDiv(p) == p.tileM * p.tileK

ALoadLimit(p) == (p.tileM * p.tileK) \div p.aComponents
ALoadRow(p, tIndex) == tIndex \div (p.tileK \div p.aComponents)
ALoadCol(p, tIndex) == tIndex % (p.tileK \div p.aComponents)

\* load of B
BLoadLimit(p) == (p.tileK * p.tileN) \div p.components
BLoadRow(p, tIndex) == tIndex \div (p.tileN \div p.components)
BLoadCol(p, tIndex) == tIndex % (p.tileN \div p.components)

\* compute and write-back loops
WorkItems(p) == (p.tileM \div p.outputNumber) * (p.tileN \div p.components)
LocalRow(p, tIndex) == (tIndex \div (p.tileN \div p.components)) * p.outputNumber
LocalCol(p, tIndex) == tIndex % (p.tileN \div p.components)

\* for (var k = 0; k < tileK; k = k + aComponents)
KSteps(p) == {k \in 0..(p.tileK - 1) : k % p.aComponents = 0}

\* calcResult: rows of mm_Bsub read at step k (bData0..), column of mm_Asub
BsubReadRows(p, k) == {k + j : j \in 0..(p.aComponents - 1)}
AsubReadCol(p, k) == k \div p.aComponents
AsubReadRows(p, tIndex) == {LocalRow(p, tIndex) + i : i \in 0..(p.outputNumber - 1)}

\* The output positions <<row, col>> of the tile whose products thread
\* localIndex adds into values[i]: one per tIndex of its compute loop.
Accumulated(p, localIndex, i) ==
  {<<LocalRow(p, t) + i, LocalCol(p, t)>> : t \in ThreadItems(localIndex, WorkItems(p))}

\* The output positions the thread writes values[i] to in the write-back loop.
WrittenTo(p, localIndex, i) ==
  {<<LocalRow(p, t) + i, LocalCol(p, t)>> : t \in ThreadItems(localIndex, WorkItems(p))}

(***************************************************************************)
(* Requests.                                                               *)
(***************************************************************************)
Variants == {"matmul", "conv2d"}

\* M and N: every size up to just past the tile cap, two full tiles, and
\* two full tiles plus a partial one
ShapeDims == (1..MaxDim) \cup {2 * TileCap, 2 * TileCap + 1}
\* K: every size up to just past the cap, two tiles, and sizes above LargeK
ShapeKs == (1..MaxK) \cup {2 * TileCap} \cup ((LargeK + 1)..(LargeK + LargeKSpan))

\* the output shape of a request: [batch, M, N] of a matmul; convInfo.outShape
\* of a convolution with one output row, [batch, height, width, channels]
\* (M = height * width, N = channels) when channels are last and
\* [batch, channels, height, width] (M = channels, N = height * width) otherwise
OutShape(v, batch, M, N, cl) ==
  IF v = "matmul" THEN <<batch, M, N>>
  ELSE IF cl THEN <<batch, 1, M, N>>
  ELSE <<batch, M, 1, N>>

Request(outShape, M, N, K, tA, tB, cl, bias, act, prelu) ==
  [outShape |-> outShape, batch |-> outShape[1], M |-> M, N |-> N, K |-> K,
   transposeA |-> tA, transposeB |-> tB, isChannelsLast |-> cl,
   hasBias |-> bias, activation |-> act, hasPreluWeights |-> prelu]

\* shapes with the constructors' default arguments
ShapeRequests(v) ==
  {Request(OutShape(v, b, M, N, v = "conv2d"), M, N, K,
           FALSE, FALSE, v = "conv2d", FALSE, NullActivation, FALSE) :
     b \in 1..MaxBatch, M \in ShapeDims, N \in ShapeDims, K \in ShapeKs}

\* one batch of every shape up to just past the tile cap, for the kernel's
\* index arithmetic (which does not read batch)
TileRequests(v) ==
  {Request(OutShape(v, 1, M, N, v = "conv2d"), M, N, K,
           FALSE, FALSE, v = "conv2d", FALSE, NullActivation, FALSE) :
     M \in 1..MaxDim, N \in 1..MaxDim, K \in ShapeKs}

\* small square shapes with every combination of the other arguments
KeyRequests(v) ==
  {Request(OutShape(v, 1, d, d, cl), d, d, d, tA, tB, cl, bias, act, prelu) :
     d \in 1..MaxKeyDim,
     tA \in (IF v = "matmul" THEN BOOLEAN ELSE {FALSE}),
     tB \in (IF v = "matmul" THEN BOOLEAN ELSE {FALSE}),
     cl \in (IF v = "conv2d" THEN BOOLEAN ELSE {FALSE}),
     bias \in BOOLEAN, act \in Activations, prelu \in BOOLEAN}

\* one output tile, every reduction length: the requests of the thread model
KernelRequests(v) ==
  {Request(OutShape(v, 1, 1, 1, v = "conv2d"), 1, 1, K,
           FALSE, FALSE, v = "conv2d", FALSE, NullActivation, FALSE) :
     K \in 1..MaxK}

Program(v, r) == IF v = "matmul" THEN MatMulLWSProgram(r) ELSE Conv2DMMLWSProgram(r)
UserCode(v, p) == IF v = "matmul" THEN MatMulUserCode(p) ELSE Conv2DUserCode(p)

NoPrev == [variant |-> "none", shaderKey |-> "", userCode |-> NoCode]

Threads == 0..(NumThreads - 1)
IdleThreads == [t \in Threads |-> "idle"]
kernelVars == <<pc, iter, arrived>>

(***************************************************************************)
(* Program construction and kernel generation.                             *)
(***************************************************************************)
Construct(v) ==
  /\ stage = "requested"
  /\ variant = v
  /\ prog' = Program(v, req)
  /\ stage' = IF prog'.threw THEN "threw" ELSE "constructed"
  /\ UNCHANGED <<variant, req, userCode, prev, kernelVars>>

ConstructMatMul == Construct("matmul")
ConstructConv2D == Construct("conv2d")

GetUserCode(v) ==
  /\ stage = "constructed"
  /\ variant = v
  /\ userCode' = UserCode(v, prog)
  /\ stage' = "generated"
  /\ UNCHANGED <<variant, req, prog, prev, kernelVars>>

GetUserCodeMatMul == GetUserCode("matmul")
GetUserCodeConv2D == GetUserCode("conv2d")

\* the generated kernel is filed under its shaderKey and the next request arrives
NextRequest ==
  /\ stage = "generated"
  /\ prev' = [variant |-> variant, shaderKey |-> prog.shaderKey, userCode |-> userCode]
  /\ variant' \in Variants
  /\ req' \in KeyRequests(variant')
  /\ stage' = "requested"
  /\ prog' = NoProgram
  /\ userCode' = NoCode
  /\ UNCHANGED kernelVars

InitCommon ==
  /\ variant \in Variants
  /\ stage = "requested"
  /\ prog = NoProgram
  /\ userCode = NoCode
  /\ prev = NoPrev
  /\ pc = IdleThreads
  /\ iter = [t \in Threads |-> 0]
  /\ arrived = {}

Init == InitCommon /\ req \in ShapeRequests(variant)

Next == ConstructMatMul \/ ConstructConv2D

Spec == Init /\ [][Next]_vars

InitTiles == InitCommon /\ req \in TileRequests(variant)

SpecTiles == InitTiles /\ [][Next]_vars

InitKey == InitCommon /\ req \in KeyRequests(variant)

NextKey ==
  \/ ConstructMatMul
  \/ ConstructConv2D
  \/ GetUserCodeMatMul
  \/ GetUserCodeConv2D
  \/ NextRequest

SpecKey == InitKey /\ [][NextKey]_vars

(***************************************************************************)
(* One workgroup running the emitted main(): the threads interleave        *)
(* freely between barriers.  pc names the statement a thread executes      *)
(* next; iter is its loop variable t.  workgroupBarrier() lets a thread    *)
(* continue once every thread of the workgroup has arrived at it.          *)
(***************************************************************************)
\* faulty variant: no barrier after the compute loop
AfterCompute_NoBarrier == "incr"

\* where a thread goes after the compute loop of one tile
AfterCompute == "barrier2"

\* where a thread goes after the two load loops of one tile
AfterLoad == "barrier1"

\* for (var t = 0u; t < numTiles; ...): the loop test
LoopTest(p) ==
  /\ pc[p] = "loop"
  /\ pc' = [pc EXCEPT ![p] = IF iter[p] < NumTiles(prog, req.K)
                             THEN "loadA" ELSE "writeBack"]
  /\ UNCHANGED <<iter, arrived>>

\* the thread's writes of mm_Asub
LoadA(p) ==
  /\ pc[p] = "loadA"
  /\ pc' = [pc EXCEPT ![p] = "loadB"]
  /\ UNCHANGED <<iter, arrived>>

\* the thread's writes of mm_Bsub
LoadB(p) ==
  /\ pc[p] = "loadB"
  /\ pc' = [pc EXCEPT ![p] = AfterLoad]
  /\ UNCHANGED <<iter, arrived>>

\* a thread reaches workgroupBarrier() and waits
Arrive(p) ==
  /\ pc[p] \in {"barrier1", "barrier2"}
  /\ pc' = [pc EXCEPT ![p] = IF pc[p] = "barrier1" THEN "wait1" ELSE "wait2"]
  /\ arrived' = arrived \cup {p}
  /\ UNCHANGED iter

\* every thread has arrived: all of them continue
Release ==
  /\ arrived = Threads
  /\ pc' = [q \in Threads |-> IF pc[q] = "wait1" THEN "compute"
                              ELSE IF pc[q] = "wait2" THEN "incr"
                              ELSE pc[q]]
  /\ arrived' = {}
  /\ UNCHANGED iter

\* the thread's reads of mm_Asub and mm_Bsub
Compute(p) ==
  /\ pc[p] = "compute"
  /\ pc' = [pc EXCEPT ![p] = AfterCompute]
  /\ UNCHANGED <<iter, arrived>>

\* t = t + 1u
Incr(p) ==
  /\ pc[p] = "incr"
  /\ iter' = [iter EXCEPT ![p] = iter[p] + 1]
  /\ pc' = [pc EXCEPT ![p] = "loop"]
  /\ UNCHANGED arrived

\* the write-back loop after the reduction loop
WriteBack(p) ==
  /\ pc[p] = "writeBack"
  /\ pc' = [pc EXCEPT ![p] = "done"]
  /\ UNCHANGED <<iter, arrived>>

planVars == <<variant, req, stage, prog, userCode, prev>>

ThreadStep ==
  \E p \in Threads :
    \/ LoopTest(p)
    \/ LoadA(p)
    \/ LoadB(p)
    \/ Arrive(p)
    \/ Compute(p)
    \/ Incr(p)
    \/ WriteBack(p)

InitKernel ==
  /\ variant \in Variants
  /\ req \in KernelRequests(variant)
  /\ stage = "generated"
  /\ prog = Program(variant, req)
  /\ userCode = UserCode(variant, prog)
  /\ prev = NoPrev
  /\ pc = [t \in Threads |-> "loop"]
  /\ iter = [t \in Threads |-> 0]
  /\ arrived = {}

NextKernel == (ThreadStep \/ Release) /\ UNCHANGED planVars

SpecKernel == InitKernel /\ [][NextKernel]_vars

(***************************************************************************)
(* Properties.                                                             *)
(***************************************************************************)
Built == stage \in {"constructed", "generated"}

\* the largest member of S that divides n
LargestDividing(S, n) ==
  CHOOSE d \in S : n % d = 0 /\ \A e \in S : n % e = 0 => e <= d

\* the least number of tiles of the given size that cover dim
TilesCovering(dim, tile) ==
  CHOOSE n \in 1..dim : n * tile >= dim /\ (n - 1) * tile < dim

\* C1: for every batch, M, N, K >= 1 both constructors get past the defensive
\* divisibility check: the construction never throws and the configuration has
\* tileN % components = 0, tileM % outputNumber = 0 and tileK % aComponents = 0.
C1_PlannerNeverThrows ==
  stage # "requested" =>
    /\ stage # "threw"
    /\ ~prog.threw
    /\ prog.tileN % prog.components = 0
    /\ prog.tileM % prog.outputNumber = 0
    /\ prog.tileK % prog.aComponents = 0

C1_Witness ==
  /\ stage = "constructed"
  /\ variant = "conv2d"
  /\ req.K > LargeK
  /\ prog.aComponents = 3
  /\ prog.tileK = 33

\* C3: the dispatch is [batch * ceil(M/tileM) * ceil(N/tileN), 1, 1] and the
\* kernel's decoding of the linear workgroup id maps 0..count-1 one-to-one onto
\* all (batch, row tile, column tile) triples.
C3_DispatchCoversEveryTileOnce ==
  Built =>
    LET rowTiles == TilesCovering(req.M, prog.tileM)
        colTiles == TilesCovering(req.N, prog.tileN)
        count    == prog.dispatch[1]
        tiles    == {<<b, r * prog.tileM, c * prog.tileN>> :
                       b \in 0..(req.batch - 1), r \in 0..(rowTiles - 1),
                       c \in 0..(colTiles - 1)}
        decoded  == {DecodeWorkgroup(prog, req.M, req.N, id) : id \in 0..(count - 1)}
    IN /\ prog.dispatch = <<req.batch * rowTiles * colTiles, 1, 1>>
       /\ decoded = tiles
       /\ Cardinality(decoded) = count

C3_Witness ==
  /\ stage = "constructed"
  /\ req.batch = 2
  /\ req.M = TileCap + 1
  /\ req.N = TileCap + 1
  /\ prog.dispatch = <<8, 1, 1>>

\* C5 as stated: in both planners aComponents is the largest member of
\* {4,3,2,1} that divides K.
C5_Original_LargestOf4321 ==
  Built => prog.aComponents = LargestDividing({4, 3, 2, 1}, req.K)

\* C5 amended: in the convolution planner aComponents is the largest member of
\* {4,3,2,1} that divides K; in the plain-matmul planner it is the largest
\* member of {4,2,1} that divides K (width 3 is never chosen there).
C5_LargestDividingWidth ==
  Built =>
    prog.aComponents =
      LargestDividing(IF variant = "conv2d" THEN {4, 3, 2, 1} ELSE {4, 2, 1}, req.K)

C5_Witness ==
  /\ stage = "constructed"
  /\ variant = "matmul"
  /\ req.K = 9
  /\ prog.aComponents = 1

\* C6 as stated: batch=1, M=N=K=64 yields components=4, aComponents=4,
\* tileM=32, tileN=32, tileK=32, outputNumber=4 and 4 workgroups.
C6_Original_TileK32 ==
  (Built /\ req.batch = 1 /\ req.M = 64 /\ req.N = 64 /\ req.K = 64) =>
    /\ prog.components = 4 /\ prog.aComponents = 4
    /\ prog.tileM = 32 /\ prog.tileN = 32 /\ prog.tileK = 32
    /\ prog.outputNumber = 4
    /\ prog.dispatch = <<4, 1, 1>>

\* C6 amended: batch=1, M=N=K=64 yields components=4, aComponents=4, tileM=32,
\* tileN=32, tileK=16 (K is not above 1000), outputNumber=4 and 4 workgroups.
C6_Scenario64 ==
  (Built /\ req.batch = 1 /\ req.M = 64 /\ req.N = 64 /\ req.K = 64) =>
    /\ prog.components = 4 /\ prog.aComponents = 4
    /\ prog.tileM = 32 /\ prog.tileN = 32 /\ prog.tileK = 16
    /\ prog.outputNumber = 4
    /\ prog.dispatch = <<4, 1, 1>>

C6_Witness ==
  /\ stage = "constructed"
  /\ variant = "matmul"
  /\ req.batch = 1 /\ req.M = 64 /\ req.N = 64 /\ req.K = 64
  /\ prog.fitInner

\* C7 as stated: in both planners outputNumber is tileM when tileM < 4 and
\* otherwise the largest member of {4,2,1} that divides tileM = min(M, 32).
C7_Original_LargestOf421 ==
  Built =>
    /\ prog.tileM = (IF req.M <= 32 THEN req.M ELSE 32)
    /\ prog.outputNumber =
         (IF prog.tileM < 4 THEN prog.tileM
          ELSE LargestDividing({4, 2, 1}, prog.tileM))

\* C7 amended: outputNumber is tileM when tileM < 4; otherwise it is the
\* largest member of {4,2,1} that divides tileM in the plain-matmul planner and
\* the largest member of {4,3,2,1} that divides tileM in the convolution
\* planner (which does choose 3, e.g. for tileM = 9); tileM = min(M, 32).
C7_OutputNumber ==
  Built =>
    /\ prog.tileM = (IF req.M <= 32 THEN req.M ELSE 32)
    /\ prog.outputNumber =
         (IF prog.tileM < 4 THEN prog.tileM
          ELSE LargestDividing(IF variant = "conv2d" THEN {4, 3, 2, 1} ELSE {4, 2, 1},
                               prog.tileM))

C7_Witness ==
  /\ stage = "constructed"
  /\ variant = "conv2d"
  /\ prog.tileM = 9
  /\ prog.outputNumber = 3

InBounds(shape, row, col) ==
  /\ 0 <= row /\ row < shape[1]
  /\ 0 <= col /\ col < shape[2]

\* C9: for every configuration either planner produces, every access of the
\* kernel to mm_Asub and mm_Bsub is inside the declared bounds: the stores of
\* the two load loops, and the compute loop's reads mm_Asub[localRow + i][k / aComponents]
\* and mm_Bsub[k + j][localCol], for every thread 0..63, every tIndex and every k.
\* (The compute loop reads mm_Asub at every row of AsubReadRows of a thread's
\* tIndex with the column of every k, and mm_Bsub at every row of BsubReadRows
\* of every k with the thread's localCol: the rows and the columns are checked
\* against the bounds separately.)
C9_SharedAccessInBounds ==
  Built =>
    LET asub == AsubShape(prog)
        bsub == BsubShape(prog)
        aLimit == ALoadLimit(prog)
        bLimit == BLoadLimit(prog)
        items == WorkItems(prog)
        ksteps == KSteps(prog)
    IN /\ \A localIndex \in 0..(WorkgroupSize - 1) :
            /\ \A t \in ThreadItems(localIndex, aLimit) :
                 InBounds(asub, ALoadRow(prog, t), ALoadCol(prog, t))
            /\ \A t \in ThreadItems(localIndex, bLimit) :
                 InBounds(bsub, BLoadRow(prog, t), BLoadCol(prog, t))
            /\ \A t \in ThreadItems(localIndex, items) :
                 /\ \A row \in AsubReadRows(prog, t) : InBounds(asub, row, 0)
                 /\ InBounds(bsub, 0, LocalCol(prog, t))
       /\ items > 0 =>
            \A k \in ksteps :
              /\ InBounds(asub, 0, AsubReadCol(prog, k))
              /\ \A row \in BsubReadRows(prog, k) : InBounds(bsub, row, 0)

C9_Witness ==
  /\ stage = "constructed"
  /\ variant = "conv2d"
  /\ prog.tileM = 30 /\ prog.outputNumber = 3
  /\ prog.tileN = 31
  /\ prog.aComponents = 3 /\ prog.tileK = 18
  /\ Cardinality(ThreadItems(0, ALoadLimit(prog))) = 3
  /\ Cardinality(ThreadItems(0, WorkItems(prog))) = 5

\* C10: for every configuration either planner produces, the number of work
\* items (tileM / outputNumber) * (tileN / components) does not exceed the
\* workgroup size, so each accumulator values[i] of each thread collects the
\* products of exactly one output position, the one it is written to.
C10_OnePositionPerAccumulator ==
  Built =>
    /\ WorkItems(prog) <= WorkgroupSize
    /\ \A localIndex \in 0..(WorkgroupSize - 1) :
         \A i \in 0..(prog.outputNumber - 1) :
           \A pos \in WrittenTo(prog, localIndex, i) :
             Accumulated(prog, localIndex, i) = {pos}

\* C2: two generated requests of the same variant with the same shaderKey
\* passed the same arguments to the text generators.
C2_SameKeySameText ==
  (stage = "generated" /\ prev.variant = variant /\ prev.shaderKey = prog.shaderKey)
    => prev.userCode = userCode

\* C4: a request with PReLU weights and no activation is rejected by the
\* constructor: no program object is built for it.
C4_PreluWithoutActivationRejected ==
  (req.hasPreluWeights /\ req.activation = NullActivation /\ stage # "requested")
    => stage = "threw"

\* every thread has finished its stores of tile t
LoadsDone(q, t) ==
  \/ iter[q] > t
  \/ iter[q] = t /\ pc[q] \in {"barrier1", "wait1", "compute", "barrier2", "wait2", "incr"}

\* every thread has finished its reads of tile t
ReadsDone(q, t) ==
  \/ iter[q] > t
  \/ iter[q] = t /\ pc[q] \in {"barrier2", "wait2", "incr"}

\* C8: under every interleaving, a thread about to read the shared tiles in
\* iteration t finds that every thread has finished its stores of iteration t,
\* and a thread about to store the tiles of iteration t+1 finds that every
\* thread has finished its reads of iteration t.
C8_NoRaceOnSharedTiles ==
  \A p \in Threads : \A q \in Threads :
    /\ pc[p] = "compute" => LoadsDone(q, iter[p])
    /\ (pc[p] \in {"loadA", "loadB"} /\ iter[p] > 0) => ReadsDone(q, iter[p] - 1)

C8_Witness ==
  /\ pc[0] = "loadB" /\ iter[0] = 2
  /\ pc[1] = "incr" /\ iter[1] = 1
  /\ NumTiles(prog, req.K) = 3

====
